---------------------------- MODULE Spec2Model ----------------------------
(***************************************************************************)
(* Model of the weather application's hydration pipeline                   *)
(* (src/ICA/src): the retrying HTTP request of BaseApiService, the         *)
(* location resolution of GeocodingApiService / LocationManager and the    *)
(* weather hydration of WeatherApiService / LocationManager over the       *)
(* SQLAlchemy store (countries, cities, daily_weather_entries).            *)
(*                                                                         *)
(* Units: temperatures are counted in half degrees, so that the mean       *)
(* (max + min) / 2 of two whole-degree readings is an integer.             *)
(***************************************************************************)
EXTENDS Integers, Sequences, FiniteSets, Bags, TLC

VARIABLES
    rq,         \* the activation of BaseApiService._make_request under observation
    countries,  \* table countries: sequence of rows in rowid order
    cities,     \* table cities: sequence of rows in rowid order
    entries,    \* table daily_weather_entries: bag of rows (rowid abstracted)
    lastOp      \* what the last completed operation was given and what it answered

vars == <<rq, countries, cities, entries, lastOp>>

None == "None"

----------------------------------------------------------------------------
(* Bounds of the model *)

MaxRetriesBound == 3
MaxDelay == 2
MaxMistypes == 1
MaxCities == 2
MaxCountries == 3
MaxDay == 2
MaxEntries == 3
MaxInputs == 3
MaxSessions == 2

----------------------------------------------------------------------------
(* BaseApiService._make_request                                            *)

\* What one requests.get + raise_for_status + json() can do:
\*   "fail"    a requests.RequestException (connection error, HTTP status),
\*   "invalid" an error that is no RequestException (the structure check of
\*             line 65 raising ValueError, or TypeError on a scalar body),
\*   a body    the parsed JSON object.
Fail == [kind |-> "fail"]
Invalid == [kind |-> "invalid"]
Ok(body) == [kind |-> "ok", body |-> body]

Bodies == {"bodyA", "bodyB"}
TransportOutcomes == {Fail, Invalid} \cup {Ok(b) : b \in Bodies}

Services == {"geocoding", "archive"}

\* The state of a call before its loop starts.
NewRequest(service, max_retries, retry_delay) ==
    [ service     |-> service,
      max_retries |-> max_retries,
      retry_delay |-> retry_delay,
      attempt     |-> 1,
      status      |-> "running",
      result      |-> None,
      error       |-> None,
      log         |-> << >>,
      waited      |-> 0 ]

\* range(1, max_retries + 1) is exhausted: the function falls off its end.
LoopExhausted(r) == r.attempt > r.max_retries

\* Line 73: sleep and go round again only before the last attempt.
RetryAgainOffByOne(r) == r.attempt + 1 < r.max_retries
RetryAgain(r) == r.attempt < r.max_retries

\* One iteration of the loop body, the transport answering o.
AttemptStep(r, o) ==
    LET got == [r EXCEPT !.log = Append(@, o)]
    IN  IF o.kind = "fail"
        THEN IF RetryAgain(r)
             THEN [got EXCEPT !.status = "sleeping"]
             ELSE [got EXCEPT !.status = "raised", !.error = "exhausted"]
        ELSE IF o.kind = "invalid"
        THEN [got EXCEPT !.status = "raised", !.error = "invalid"]
        ELSE [got EXCEPT !.status = "returned", !.result = o.body]

\* time.sleep(self.retry_delay), then the next value of the range.
SleepStep(r) ==
    [r EXCEPT !.log = Append(@, [kind |-> "sleep"]),
              !.waited = @ + r.retry_delay,
              !.attempt = @ + 1,
              !.status = "running"]

\* The whole call, the transport answering outcomes[i] to attempt i.
RECURSIVE RunRequest(_, _)
RunRequest(r, outcomes) ==
    IF r.status = "sleeping" THEN RunRequest(SleepStep(r), outcomes)
    ELSE IF r.status # "running" THEN r
    ELSE IF LoopExhausted(r) THEN [r EXCEPT !.status = "returned"]
    ELSE RunRequest(AttemptStep(r, outcomes[r.attempt]), outcomes)

MakeRequestReturningNothing(service, max_retries, retry_delay, outcomes) ==
    LET r == RunRequest(NewRequest(service, max_retries, retry_delay), outcomes)
    IN  IF r.status = "raised" /\ r.error = "exhausted"
        THEN [r EXCEPT !.status = "returned",
                       !.result = [has_results |-> FALSE, results |-> << >>]]
        ELSE r
MakeRequest(service, max_retries, retry_delay, outcomes) ==
    RunRequest(NewRequest(service, max_retries, retry_delay), outcomes)

----------------------------------------------------------------------------
(* The store: tables countries and cities                                   *)

\* The services are built with the default max_retries and retry_delay.
DefaultMaxRetries == 3
DefaultRetryDelay == 2

\* SQLite gives a new row the rowid after the largest one.
NextId(table) ==
    IF table = << >> THEN 1
    ELSE 1 + CHOOSE m \in {table[i].id : i \in DOMAIN table} :
                 \A i \in DOMAIN table : table[i].id <= m

\* Query.first(): the position of the first row with the property, 0 for None.
FirstIndex(table, Has(_)) ==
    LET S == {i \in DOMAIN table : Has(table[i])}
    IN  IF S = {} THEN 0 ELSE CHOOSE i \in S : \A j \in S : i <= j

\* str.lower over the names of the model (ilike compares case-insensitively).
Lower(s) ==
    CASE s = "London" -> "london"
      [] s = "UK" -> "uk"
      [] OTHER -> s

ILike(a, b) == Lower(a) = Lower(b)

\* session.add(Country(...)); session.commit()
AddCountry(cs, name, timezone) ==
    Append(cs, [id |-> NextId(cs), name |-> name, timezone |-> timezone])

\* session.add(City(...)); session.commit()
AddCity(cs, name, latitude, longitude, timezone, country_id) ==
    Append(cs, [id |-> NextId(cs), name |-> name, latitude |-> latitude,
                longitude |-> longitude, timezone |-> timezone,
                country_id |-> country_id])

\* LocationManager.get_city_from_db: filter_by(name=location_name).first()
GetCityFromDb(cs, location_name) ==
    FirstIndex(cs, LAMBDA c : c.name = location_name)

----------------------------------------------------------------------------
(* The geocoder's answers                                                  *)

\* One entry of the response's "results"; None stands for an absent key.
Candidate(name, latitude, country, country_code, timezone, complete) ==
    [ name |-> name, latitude |-> latitude, longitude |-> 0,
      country |-> country, country_code |-> country_code,
      timezone |-> timezone, complete |-> complete ]

Candidates ==
    { Candidate("London", 51, "UK", None, "GMT", TRUE),
      Candidate("london", 42, None, "uk", "EST", TRUE),
      Candidate("London", 43, None, None, "GMT", TRUE),
      Candidate("london", 51, "UK", None, None, TRUE),
      Candidate("London", 51, "UK", None, "GMT", FALSE) }

\* The candidates the answers with several results are made of.
ListedCandidates ==
    { Candidate("London", 51, "UK", None, "GMT", TRUE),
      Candidate("london", 42, None, "uk", "EST", TRUE) }

\* A response body of the geocoder: "results" absent, or a list.
GeoAbsent == [has_results |-> FALSE, results |-> << >>]
GeoResults(list) == [has_results |-> TRUE, results |-> list]

GeoBodies ==
    {GeoAbsent, GeoResults(<< >>)}
        \cup {GeoResults(<<c>>) : c \in Candidates}
        \cup {GeoResults(<<p[1], p[2]>>) :
                  p \in {q \in ListedCandidates \X ListedCandidates : q[1] # q[2]}}

\* The transport failing k times and then answering o.
FailThen(k, o, max_retries) ==
    [i \in 1..max_retries |-> IF i <= k THEN Fail ELSE o]

LocationNames == {"london", "London"}

\* The transport answers at once, on the last attempt only, or never.
FailCounts == {0, DefaultMaxRetries - 1, DefaultMaxRetries}

\* What the user types at "Please select a city": 0 stands for every input
\* that is no number of the list.
Choices == 0..2

\* The session.commit() the store refuses, if any: the Country's or the
\* City's in fetch_city_data, or the one of ensure_country_exists.
CommitFaults == {"none", "country", "city", "ensure_country"}

\* One round of fetch_city_data: the transport's behaviour, the user's choice
\* and the store's.
GeoRounds ==
    { [fails |-> k, answer |-> o, choice |-> ch, commit |-> f] :
        k \in FailCounts,
        o \in {Invalid} \cup {Ok(b) : b \in GeoBodies},
        ch \in Choices,
        f \in CommitFaults }

\* A round whose choice is read: exactly the rounds with several results.
ReadsChoice(round) ==
    /\ round.fails < DefaultMaxRetries
    /\ round.answer.kind = "ok"
    /\ Len(round.answer.body.results) > 1

\* A round that reaches a commit: the transport answers at once with one
\* complete candidate.
ReachesCommit(round) ==
    /\ round.fails = 0
    /\ round.answer.kind = "ok"
    /\ Len(round.answer.body.results) = 1
    /\ round.answer.body.results[1].complete

\* The rounds over a store that accepts every commit, each written one way:
\* the choice is 1 where it is not read, and the answer is Invalid where the
\* transport never answers.
Rounds ==
    {r \in GeoRounds : /\ ReadsChoice(r) \/ r.choice = 1
                       /\ r.fails = DefaultMaxRetries => r.answer = Invalid
                       /\ r.commit = "none"}

\* The rounds that reach a commit, over a store that may refuse one.
FaultRounds == {r \in GeoRounds : ReachesCommit(r) /\ r.choice = 1}

\* A round whose choice is no number of the list.
Mistyped(round) ==
    ReadsChoice(round) /\ round.choice \notin 1..Len(round.answer.body.results)

\* A mistyped round leaves no trace but its request, so one stands for all.
MistypedRound ==
    CHOOSE r \in Rounds : Mistyped(r) /\ r.fails = 0

\* The sequences of rounds of one call: the user mistypes the choice in
\* every round but the last, at most MaxMistypes times.
RECURSIVE RoundSeqs(_)
RoundSeqs(n) ==
    {<<r>> : r \in {x \in Rounds : ~Mistyped(x)}}
        \cup (IF n = 0 THEN {}
              ELSE {<<MistypedRound>> \o rest : rest \in RoundSeqs(n - 1)})

----------------------------------------------------------------------------
(* GeocodingApiService.fetch_city_data                                     *)

\* Line 78: the candidate's country, else its country code, else None.
CountryNameOf(c) == IF c.country # None THEN c.country ELSE c.country_code

\* Lines 70-115: the chosen candidate is checked, its country found or added
\* and committed, and then its City row added and committed.  A commit the
\* store refuses is rolled back and raised (lines 117-120); a candidate
\* without a timezone fails the NOT NULL constraint of cities.timezone when
\* the City is committed, after the Country was committed.
StoreCandidateCityFirst(st, c, commit) ==
    [countries |-> st.countries,
     cities |-> AddCity(st.cities, c.name, c.latitude, c.longitude,
                        "Unavailable", NextId(st.countries)),
     outcome |-> "SQLAlchemyError", city |-> 0]
StoreCandidate(st, c, commit) ==
    IF ~c.complete
    THEN [countries |-> st.countries, cities |-> st.cities,
          outcome |-> "Incomplete", city |-> 0]
    ELSE
    LET country_name == CountryNameOf(c)
        found == IF country_name = None THEN 0
                 ELSE FirstIndex(st.countries, LAMBDA k : k.name = country_name)
        cs1 == IF country_name # None
               THEN IF found # 0 THEN st.countries
                    ELSE AddCountry(st.countries, country_name,
                                    IF c.timezone = None THEN "Unavailable"
                                    ELSE c.timezone)
               ELSE AddCountry(st.countries, "Unavailable", "Unavailable")
    IN  IF found = 0 /\ commit = "country"
        THEN [countries |-> st.countries, cities |-> st.cities,
              outcome |-> "SQLAlchemyError", city |-> 0]
        ELSE IF c.timezone = None
        THEN [countries |-> cs1, cities |-> st.cities,
              outcome |-> "IntegrityError", city |-> 0]
        ELSE IF commit = "city"
        THEN [countries |-> cs1, cities |-> st.cities,
              outcome |-> "SQLAlchemyError", city |-> 0]
        ELSE LET country == IF found # 0 THEN st.countries[found]
                            ELSE cs1[Len(cs1)]
                 cities1 == AddCity(st.cities, c.name, c.latitude, c.longitude,
                                    c.timezone, country.id)
             IN  [countries |-> cs1, cities |-> cities1,
                  outcome |-> "ok", city |-> Len(cities1)]

\* Line 41: "response and response.get('results')" is false.
NoResultsFoundAbsentOnly(body) == ~body.has_results
NoResultsFound(body) == ~body.has_results \/ body.results = << >>

\* What the response of the geocoder amounts to.
AnswerKind(r) ==
    IF r.status = "raised" THEN "none"
    ELSE IF r.log = << >> THEN "none"
    ELSE IF ~r.result.has_results THEN "absent"
    ELSE IF r.result.results = << >> THEN "empty"
    ELSE "results"

\* Lines 47-67: the candidate the user chose among several (the typed number
\* less one), or the only one.
CityInfoFirst(data, choice) == data[1]
CityInfo(data, choice) == IF Len(data) > 1 THEN data[choice] ELSE data[1]

\* The whole call; rounds[1] is the round of this activation, the rest the
\* rounds of the calls it makes of itself after a mistyped choice.
RECURSIVE FetchCityData(_, _, _)

\* Lines 39-129: what the call does with r, the outcome of its request.
CityDataFromResponse(st, city_name, rounds, r) ==
    LET round == rounds[1]
        kind == AnswerKind(r)
        failed(outcome) ==
            [countries |-> st.countries, cities |-> st.cities,
             outcome |-> outcome, city |-> 0, requests |-> 1, answer |-> kind]
    IN  IF r.status = "raised"
        THEN failed(IF r.error = "exhausted" THEN "RequestFailed"
                    ELSE "InvalidResponse")
        ELSE IF r.log = << >> THEN failed("AttributeError")
        ELSE IF NoResultsFound(r.result) THEN failed("NoResults")
        ELSE
        LET data == r.result.results
        IN  IF data = << >> THEN failed("IndexError")
            ELSE IF Len(data) > 1 /\ round.choice \notin 1..Len(data)
            THEN IF Len(rounds) = 1 THEN failed("unfinished")
                 ELSE [FetchCityData(st, city_name, Tail(rounds))
                           EXCEPT !.requests = @ + 1]
            ELSE [requests |-> 1, answer |-> kind]
                     @@ StoreCandidate(st, CityInfo(data, round.choice),
                                       round.commit)

\* Line 37: self._make_request(params={'name': city_name})
FetchCityData(st, city_name, rounds) ==
    CityDataFromResponse(
        st, city_name, rounds,
        MakeRequest("geocoding", DefaultMaxRetries, DefaultRetryDelay,
                    FailThen(rounds[1].fails, rounds[1].answer,
                             DefaultMaxRetries)))

----------------------------------------------------------------------------
(* LocationManager: location resolution                                     *)

\* SessionManager.commit_session: a commit the store refuses is rolled back
\* and logged, and the caller goes on.
CommitSession(before, pending, commit_ok) ==
    IF commit_ok THEN pending ELSE before

\* ensure_country_exists: the first Country whose name matches ilike, or a
\* new Country of that name.  After a refused commit the Country object it
\* returns is no row of the store (its id is None, written 0).
EnsureCountryExists(cs, country_name, commit_ok) ==
    LET found == FirstIndex(cs, LAMBDA k : ILike(k.name, country_name))
        cs1 == AddCountry(cs, country_name, "Unavailable")
    IN  IF found # 0
        THEN [countries |-> cs, country |-> cs[found], failed |-> FALSE]
        ELSE [countries |-> CommitSession(cs, cs1, commit_ok),
              country |-> IF commit_ok THEN cs1[Len(cs1)]
                          ELSE [cs1[Len(cs1)] EXCEPT !.id = 0],
              failed |-> ~commit_ok]

\* ensure_city_exists: the first City of that name, or a new one; a City
\* whose country is missing is linked to the given country.
EnsureCityExists(countries_, cs, city_name, latitude, longitude, country) ==
    LET found == FirstIndex(cs, LAMBDA c : c.name = city_name)
        cs1 == IF found # 0 THEN cs
               ELSE AddCity(cs, city_name, latitude, longitude, "Unavailable",
                            country.id)
        at == IF found # 0 THEN found ELSE Len(cs1)
        linked == \E i \in DOMAIN countries_ : countries_[i].id = cs1[at].country_id
    IN  [cities |-> IF linked THEN cs1
                    ELSE [cs1 EXCEPT ![at].country_id = country.id],
         city |-> at]

\* An exception of fetch_city_data that a refused store write raised.
IsWriteError(outcome) == outcome \in {"SQLAlchemyError", "IntegrityError"}

\* Lines 55-84: the City that fetch_city_data returned is ensured again,
\* under a Country named after the location.
EnsureFetchedLocation(location_name, fetched, commit) ==
    IF fetched.outcome # "ok"
    THEN [countries |-> fetched.countries, cities |-> fetched.cities,
          outcome |-> fetched.outcome, city |-> 0, hit |-> FALSE,
          requests |-> fetched.requests, answer |-> fetched.answer,
          write_failed |-> IsWriteError(fetched.outcome)]
    ELSE
    LET city_info == fetched.cities[fetched.city]
        ensured == EnsureCountryExists(fetched.countries, location_name,
                                       commit # "ensure_country")
        placed == EnsureCityExists(ensured.countries, fetched.cities,
                                   city_info.name, city_info.latitude,
                                   city_info.longitude, ensured.country)
    IN  [countries |-> ensured.countries, cities |-> placed.cities,
         outcome |-> "ok", city |-> placed.city, hit |-> FALSE,
         requests |-> fetched.requests, answer |-> fetched.answer,
         write_failed |-> ensured.failed]

\* The round that ends the call.
LastRound(rounds) == rounds[Len(rounds)]

\* ensure_location_in_database: the City of the store if there is one
\* (lines 47-52), the geocoder's otherwise.
EnsureLocationInDatabaseNoCache(st, location_name, rounds) ==
    EnsureFetchedLocation(location_name,
                          FetchCityData(st, location_name, rounds),
                          LastRound(rounds).commit)
EnsureLocationInDatabase(st, location_name, rounds) ==
    IF GetCityFromDb(st.cities, location_name) # 0
    THEN [countries |-> st.countries, cities |-> st.cities,
          outcome |-> "ok", city |-> GetCityFromDb(st.cities, location_name),
          hit |-> TRUE, requests |-> 0, answer |-> "none",
          write_failed |-> FALSE]
    ELSE EnsureFetchedLocation(location_name,
                               FetchCityData(st, location_name, rounds),
                               LastRound(rounds).commit)

----------------------------------------------------------------------------
(* The archive's answers                                                   *)

\* A date string of the payload: "%Y-%m-%d" text of a day, or other text.
DateStr(d) == [valid |-> TRUE, day |-> d]
BadDateStr == [valid |-> FALSE]

\* A number of the payload, or JSON null.
Num(v) == [null |-> FALSE, v |-> v]
JsonNull == [null |-> TRUE]

\* The readings of the archive for a day (half degrees; precipitation in
\* thousandths of a millimetre).
ArchiveMax(d) == 20 + 2 * d
ArchiveMin(d) == 2 * d
ArchivePrecip(d) == 4 * (d % 3)

SeqOver(start, end, F(_)) == [i \in 1..(end - start + 1) |-> F(start + i - 1)]
ButLast(seq) == SubSeq(seq, 1, Len(seq) - 1)
NullLast(seq) == [seq EXCEPT ![Len(seq)] = JsonNull]

\* The "daily" block for a range, in the shapes the archive can give it.
DailyShapes ==
    {"full", "short", "ragged", "no_precip", "bad_date", "null_temp", "null_precip"}

Daily(shape, start, end) ==
    LET time == SeqOver(start, end, DateStr)
        tmax == SeqOver(start, end, LAMBDA d : Num(ArchiveMax(d)))
        tmin == SeqOver(start, end, LAMBDA d : Num(ArchiveMin(d)))
        prec == SeqOver(start, end, LAMBDA d : Num(ArchivePrecip(d)))
    IN  [ time |-> IF shape = "short" THEN ButLast(time)
                   ELSE IF shape = "bad_date"
                   THEN [time EXCEPT ![Len(time)] = BadDateStr]
                   ELSE time,
          temperature_2m_max |-> IF shape = "short" THEN ButLast(tmax)
                                 ELSE IF shape = "null_temp" THEN NullLast(tmax)
                                 ELSE tmax,
          temperature_2m_min |-> IF shape = "short" THEN ButLast(tmin) ELSE tmin,
          precipitation_sum |-> IF shape \in {"short", "ragged"} THEN ButLast(prec)
                                ELSE IF shape = "no_precip" THEN << >>
                                ELSE IF shape = "null_precip" THEN NullLast(prec)
                                ELSE prec ]

\* A response body of the archive: an "error" key, no "daily" key, or "daily".
ArchiveKinds == {"error", "no_daily"} \cup DailyShapes

ArchiveBody(kind, start, end) ==
    [ has_error |-> kind = "error",
      has_daily |-> kind \in DailyShapes,
      daily |-> IF kind \in DailyShapes THEN Daily(kind, start, end)
                ELSE Daily("no_precip", start, end) ]

\* One archive call: how often the transport fails, what it answers then,
\* and whether the store accepts the commit.  Each case is written one way:
\* the answer is "invalid" where the transport never answers, and the commit
\* is refused only where a full payload reaches it.
ArchiveInputs ==
    { [fails |-> k, kind |-> a, commit_ok |-> TRUE] :
        k \in FailCounts \ {DefaultMaxRetries}, a \in ArchiveKinds \cup {"invalid"} }
        \cup { [fails |-> DefaultMaxRetries, kind |-> "invalid", commit_ok |-> TRUE] }
        \cup { [fails |-> 0, kind |-> "full", commit_ok |-> FALSE] }

----------------------------------------------------------------------------
(* WeatherData                                                              *)

\* __init__: the four lists of the block (weather_data.get(key, [])).
WeatherData(daily) ==
    [ temperature_2m_max |-> daily.temperature_2m_max,
      temperature_2m_min |-> daily.temperature_2m_min,
      precipitation_sum |-> daily.precipitation_sum,
      dates |-> daily.time ]

\* The object fetch_weather_data returns in place of a failure.
EmptyWeatherData ==
    [ temperature_2m_max |-> << >>, temperature_2m_min |-> << >>,
      precipitation_sum |-> << >>, dates |-> << >> ]

\* is_valid: none of the four lists is empty.
IsValid(wd) ==
    /\ wd.temperature_2m_max # << >>
    /\ wd.temperature_2m_min # << >>
    /\ wd.precipitation_sum # << >>
    /\ wd.dates # << >>

Min2(a, b) == IF a <= b THEN a ELSE b

\* zip stops at the shortest of the four lists.
ZipLen(wd) ==
    Min2(Min2(Len(wd.dates), Len(wd.temperature_2m_max)),
         Min2(Len(wd.temperature_2m_min), Len(wd.precipitation_sum)))

\* One DailyWeatherEntry of map_to_daily_weather.
MapEntrySwappingTemps(wd, i, city_id) ==
    [ city_id |-> city_id,
      date |-> wd.dates[i].day,
      min_temp |-> wd.temperature_2m_max[i].v,
      max_temp |-> wd.temperature_2m_min[i].v,
      mean_temp |-> (wd.temperature_2m_max[i].v + wd.temperature_2m_min[i].v) \div 2,
      precipitation |-> wd.precipitation_sum[i] ]
MapEntry(wd, i, city_id) ==
    [ city_id |-> city_id,
      date |-> wd.dates[i].day,
      min_temp |-> wd.temperature_2m_min[i].v,
      max_temp |-> wd.temperature_2m_max[i].v,
      mean_temp |-> (wd.temperature_2m_max[i].v + wd.temperature_2m_min[i].v) \div 2,
      precipitation |-> wd.precipitation_sum[i] ]

\* The entry raises: strptime on other text (ValueError), or the sum of a
\* null temperature (TypeError).
EntryRaises(wd, i) ==
    \/ ~wd.dates[i].valid
    \/ wd.temperature_2m_max[i].null
    \/ wd.temperature_2m_min[i].null

\* map_to_daily_weather: the list of entries, or an error and no list.
MapToDailyWeather(wd, city_id) ==
    IF ~IsValid(wd) THEN [error |-> "ValueError", list |-> << >>]
    ELSE IF \E i \in 1..ZipLen(wd) : EntryRaises(wd, i)
    THEN [error |-> "ConversionError", list |-> << >>]
    ELSE [error |-> None,
          list |-> [i \in 1..ZipLen(wd) |-> MapEntry(wd, i, city_id)]]

----------------------------------------------------------------------------
(* WeatherApiService                                                        *)

RECURSIVE SeqToBag(_)
SeqToBag(seq) ==
    IF seq = << >> THEN EmptyBag
    ELSE SetToBag({seq[1]}) (+) SeqToBag(Tail(seq))

\* The insert violates NOT NULL (precipitation is None).
ViolatesNotNull(entry) == entry.precipitation.null

\* The row an entry is inserted as.
Row(entry) == [entry EXCEPT !.precipitation = entry.precipitation.v]

RowsOf(list) == SeqToBag([i \in DOMAIN list |-> Row(list[i])])

\* _store_weather_data: every entry is added and the session committed; a
\* failing commit is rolled back and raised.
StoreWeatherDataKeepingValidRows(es, daily_weather_entries, commit_ok) ==
    LET good == SelectSeq(daily_weather_entries, LAMBDA e : ~ViolatesNotNull(e))
    IN  IF commit_ok /\ good = daily_weather_entries
        THEN [entries |-> es (+) RowsOf(daily_weather_entries), error |-> None]
        ELSE [entries |-> es (+) RowsOf(good), error |-> "SQLAlchemyError"]
StoreWeatherData(es, daily_weather_entries, commit_ok) ==
    IF commit_ok /\ \A i \in DOMAIN daily_weather_entries :
                        ~ViolatesNotNull(daily_weather_entries[i])
    THEN [entries |-> es (+) RowsOf(daily_weather_entries), error |-> None]
    ELSE [entries |-> es, error |-> "SQLAlchemyError"]

\* Lines 47-86 of fetch_weather_data: what it does with r, the outcome of
\* its request.  Every exception of the try block is caught and an empty
\* WeatherData returned in its place.
WeatherDataFromResponse(es, city_id, commit_ok, r) ==
    LET caught(failure) ==
            [entries |-> es, failure |-> failure, raised |-> FALSE,
             returned |-> EmptyWeatherData, requests |-> 1]
    IN  IF r.status = "raised"
        THEN caught(IF r.error = "exhausted" THEN "RequestFailed"
                    ELSE "InvalidResponse")
        ELSE IF r.log = << >> THEN caught("TypeError")
        ELSE IF r.result.has_error THEN caught("ApiError")
        ELSE IF ~r.result.has_daily THEN caught("NoDaily")
        ELSE
        LET weather_data == WeatherData(r.result.daily)
        IN  IF ~IsValid(weather_data) THEN caught("InvalidData")
            ELSE
            LET mapped == MapToDailyWeather(weather_data, city_id)
            IN  IF mapped.error # None THEN caught(mapped.error)
                ELSE
                LET stored == StoreWeatherData(es, mapped.list, commit_ok)
                IN  IF stored.error # None
                    THEN [caught("CommitError") EXCEPT !.entries = stored.entries]
                    ELSE [entries |-> stored.entries, failure |-> None,
                          raised |-> FALSE, returned |-> weather_data,
                          requests |-> 1]

\* fetch_weather_data: the request of lines 37-44, then the above.
FetchWeatherData(es, latitude, longitude, start_date, end_date, city_id, input) ==
    WeatherDataFromResponse(
        es, city_id, input.commit_ok,
        MakeRequest("archive", DefaultMaxRetries, DefaultRetryDelay,
                    FailThen(input.fails,
                             IF input.kind = "invalid" THEN Invalid
                             ELSE Ok(ArchiveBody(input.kind, start_date, end_date)),
                             DefaultMaxRetries)))

----------------------------------------------------------------------------
(* LocationManager: hydration                                               *)

\* timedelta(days=6) of fetch_seven_day_precipitation
WindowDays == 6

\* process_weather_data: len(weather_data) of its first statement raises
\* TypeError, WeatherData having no __len__; nothing is added.
ProcessWeatherDataAddingAgain(es, weather_data, city_id) ==
    LET mapped == MapToDailyWeather(weather_data, city_id)
        good == SelectSeq(mapped.list, LAMBDA e : ~ViolatesNotNull(e))
    IN  [entries |-> es (+) RowsOf(good), outcome |-> "ok"]
ProcessWeatherData(es, weather_data, city_id) ==
    [entries |-> es, outcome |-> "TypeError"]

\* Lines 196-200 of fetch_location_weather_data: process_weather_data on
\* what the service returned, a WeatherData object being true.
ProcessFetchedWeatherData(fetched, city) ==
    LET processed == ProcessWeatherData(fetched.entries, fetched.returned, city)
    IN  [entries |-> processed.entries, failure |-> fetched.failure,
         raised |-> processed.outcome = "TypeError",
         outcome |-> processed.outcome, requests |-> fetched.requests]

\* fetch_location_weather_data for a City of the store: the service's call
\* (fetch_weather_data_for_city), then process_weather_data.
FetchLocationWeatherData(es, city, start_date, end_date, input) ==
    ProcessFetchedWeatherData(
        FetchWeatherData(es, city.latitude, city.longitude, start_date,
                         end_date, city.id, input),
        city.id)

\* The rows of a City dated in [start_date, end_date].
InRange(row, city_id, start_date, end_date) ==
    /\ row.city_id = city_id
    /\ row.date >= start_date
    /\ row.date <= end_date

\* The rows .filter(city_id == ..., date.between(start_date, end_date)).all()
\* selects.
RowsBetween(es, city_id, start_date, end_date) ==
    LET chosen == {row \in BagToSet(es) :
                       InRange(row, city_id, start_date, end_date)}
    IN  [row \in chosen |-> es[row]]

\* Lines 382-384 of fetch_seven_day_precipitation: process_weather_data on
\* what the service returned for the City just stored.
SevenDayProcessed(countries_, cities_, requests, processed) ==
    [countries |-> countries_, cities |-> cities_,
     entries |-> processed.entries, outcome |-> processed.outcome,
     failure |-> processed.failure, requests |-> requests,
     archive_requests |-> processed.requests, city_id |-> 0,
     rows |-> EmptyBag]

\* Lines 356-388 of fetch_seven_day_precipitation: no City of the name is
\* stored and fetch_city_data returned fetched.
SevenDayForNewCity(st, location_name, start_date, end_date, fetched, commit, input) ==
    IF fetched.outcome # "ok"
    THEN [countries |-> fetched.countries, cities |-> fetched.cities,
          entries |-> st.entries, outcome |-> fetched.outcome,
          failure |-> None, requests |-> fetched.requests,
          archive_requests |-> 0, city_id |-> 0, rows |-> EmptyBag]
    ELSE
    LET city_info == fetched.cities[fetched.city]
        ensured == EnsureCountryExists(fetched.countries, location_name,
                                       commit # "ensure_country")
        placed == EnsureCityExists(ensured.countries, fetched.cities,
                                   city_info.name, city_info.latitude,
                                   city_info.longitude, ensured.country)
        found == placed.cities[placed.city]
    IN  SevenDayProcessed(
            ensured.countries, placed.cities, fetched.requests,
            ProcessFetchedWeatherData(
                FetchWeatherData(st.entries, found.latitude, found.longitude,
                                 start_date, end_date, found.id, input),
                location_name))

\* Lines 393-418 of fetch_seven_day_precipitation for a City of the store.
\* start_date and end_date are strings by then (strftime, lines 352-353) and
\* DailyWeatherEntry.date is a Date column: binds tells whether the
\* dialect takes a string for it or raises (the SQLite Date type accepts
\* only date objects and its TypeError surfaces as StatementError).
SevenDayOfStore(st, city_id, start_date, end_date, binds) ==
    [countries |-> st.countries, cities |-> st.cities, entries |-> st.entries,
     failure |-> None, requests |-> 0, archive_requests |-> 0,
     city_id |-> city_id]
    @@ (IF ~binds
        THEN [outcome |-> "StatementError", rows |-> EmptyBag]
        ELSE IF RowsBetween(st.entries, city_id, start_date, end_date) # EmptyBag
        THEN [outcome |-> "existing_data",
              rows |-> RowsBetween(st.entries, city_id, start_date, end_date)]
        ELSE [outcome |-> "empty_dict", rows |-> EmptyBag])

\* fetch_seven_day_precipitation
FetchSevenDayPrecipitation(st, location_name, start, rounds, input, binds) ==
    LET city == GetCityFromDb(st.cities, location_name)
        start_date == start
        end_date == start + WindowDays
    IN  IF city # 0
        THEN SevenDayOfStore(st, st.cities[city].id, start_date, end_date, binds)
        ELSE SevenDayForNewCity(st, location_name, start_date, end_date,
                                FetchCityData(st, location_name, rounds),
                                LastRound(rounds).commit, input)

----------------------------------------------------------------------------
(* The request loop, one iteration at a time *)

StoreInit ==
    /\ countries = << >>
    /\ cities = << >>
    /\ entries = EmptyBag
    /\ lastOp = [op |-> "none"]

RetryInit ==
    /\ \E s \in Services, n \in 0..MaxRetriesBound, d \in 1..MaxDelay :
          rq = NewRequest(s, n, d)
    /\ StoreInit

\* The for statement finds its range exhausted: _make_request returns None.
ReqFallOff ==
    /\ rq.status = "running"
    /\ LoopExhausted(rq)
    /\ rq' = [rq EXCEPT !.status = "returned"]
    /\ UNCHANGED <<countries, cities, entries, lastOp>>

ReqAttempt ==
    /\ rq.status = "running"
    /\ ~LoopExhausted(rq)
    /\ \E o \in TransportOutcomes : rq' = AttemptStep(rq, o)
    /\ UNCHANGED <<countries, cities, entries, lastOp>>

ReqSleep ==
    /\ rq.status = "sleeping"
    /\ rq' = SleepStep(rq)
    /\ UNCHANGED <<countries, cities, entries, lastOp>>

RetryNext == ReqFallOff \/ ReqAttempt \/ ReqSleep

SpecRetry == RetryInit /\ [][RetryNext]_vars

\* The calls of requests.get and of time.sleep the log holds.
Gets(log) == {i \in DOMAIN log : log[i].kind # "sleep"}
Sleeps(log) == {i \in DOMAIN log : log[i].kind = "sleep"}

\* C1: with max_retries = N >= 1 the attempts come one at a time with one
\* sleep of retry_delay between two consecutive attempts and none after the
\* last; the call returns the body of the first attempt that succeeds, every
\* attempt before it having failed in transport; and it raises for exhausted
\* retries only after exactly N failed attempts and N - 1 sleeps.
C1_RetryContract ==
    rq.max_retries >= 1 =>
        /\ \A i \in DOMAIN rq.log : (rq.log[i].kind = "sleep") <=> (i % 2 = 0)
        /\ Cardinality(Gets(rq.log)) <= rq.max_retries
        /\ rq.waited = rq.retry_delay * Cardinality(Sleeps(rq.log))
        /\ \A i \in Gets(rq.log) : i < Len(rq.log) => rq.log[i].kind = "fail"
        /\ rq.status = "returned" =>
              /\ rq.log # << >>
              /\ rq.log[Len(rq.log)].kind = "ok"
              /\ rq.result = rq.log[Len(rq.log)].body
        /\ (rq.status = "raised" /\ rq.error = "exhausted") =>
              /\ Cardinality(Gets(rq.log)) = rq.max_retries
              /\ Cardinality(Sleeps(rq.log)) = rq.max_retries - 1
              /\ \A i \in Gets(rq.log) : rq.log[i].kind = "fail"
        /\ (rq.status \in {"returned", "raised"} /\ rq.log # << >>) =>
              rq.log[Len(rq.log)].kind # "sleep"
        /\ (\A i \in Gets(rq.log) : rq.log[i].kind = "fail") =>
              (rq.status = "raised" <=>
                   Cardinality(Gets(rq.log)) = rq.max_retries)

\* Every attempt of a call with several retries failed and the call raised.
C1_Witness ==
    /\ rq.max_retries >= 2
    /\ rq.status = "raised"
    /\ rq.error = "exhausted"
    /\ Cardinality(Sleeps(rq.log)) = rq.max_retries - 1

----------------------------------------------------------------------------
(* Location resolution over the store *)

Idle == NewRequest("geocoding", DefaultMaxRetries, DefaultRetryDelay)

AllRoundSeqs == RoundSeqs(MaxMistypes)

\* Some City row carries the name.
Known(cs, name) == \E i \in DOMAIN cs : cs[i].name = name

Init ==
    /\ rq = Idle
    /\ StoreInit

\* The candidates the geocoder listed in a round, none where its transport
\* never answered or its answer was no object.
Listed(round) ==
    IF round.fails < DefaultMaxRetries /\ round.answer.kind = "ok"
    THEN round.answer.body.results
    ELSE << >>

\* What the user is shown of a candidate, and the country it is stored under.
Brief(c) ==
    [name |-> c.name, latitude |-> c.latitude,
     country_name |-> IF CountryNameOf(c) = None THEN "Unavailable"
                      ELSE CountryNameOf(c)]

\* One call of ensure_location_in_database, the geocoder, the user and the
\* store behaving as rounds says.
Resolve(location_name, rounds) ==
        \E res \in {EnsureLocationInDatabase(
                       [countries |-> countries, cities |-> cities],
                       location_name, rounds)} :
            /\ res.outcome # "unfinished"
            /\ Len(res.countries) <= MaxCountries
            /\ Len(res.cities) <= MaxCities
            /\ countries' = res.countries
            /\ cities' = res.cities
            /\ lastOp' = [ op |-> "ensure_location_in_database",
                           name |-> location_name,
                           known |-> Known(cities, location_name),
                           hit |-> res.hit,
                           outcome |-> res.outcome,
                           answer |-> res.answer,
                           requests |-> res.requests,
                           cities_added |-> Len(res.cities) - Len(cities),
                           countries_added |->
                               Len(res.countries) - Len(countries),
                           city |-> res.city,
                           transport |->
                               IF res.hit THEN "none"
                               ELSE IF LastRound(rounds).fails = DefaultMaxRetries
                               THEN "failed" ELSE "answered",
                           listed |->
                               IF res.hit THEN << >>
                               ELSE [i \in DOMAIN Listed(LastRound(rounds)) |->
                                        Brief(Listed(LastRound(rounds))[i])],
                           choice |-> IF res.hit THEN 1
                                      ELSE LastRound(rounds).choice,
                           write_failed |-> res.write_failed ]
            /\ UNCHANGED <<rq, entries>>

EnsureLocation ==
    \E location_name \in LocationNames, rounds \in AllRoundSeqs :
        Resolve(location_name, rounds)

Next == EnsureLocation

Spec == Init /\ [][Next]_vars

IsEnsure(op) == op.op = "ensure_location_in_database"

\* C2: starting from a store with no City for a name, two consecutive
\* resolutions of that name, the geocoder answering the first with results,
\* make one geocoder request and add one City row in total: after a first
\* resolution that made one request and stored one City, the second makes
\* no request, adds no City and is answered from the store.
C2_SecondResolutionIsCacheHit ==
    [][ ( /\ IsEnsure(lastOp)
          /\ ~lastOp.known
          /\ lastOp.answer = "results"
          /\ lastOp.outcome = "ok"
          /\ lastOp.requests = 1
          /\ lastOp.cities_added = 1
          /\ IsEnsure(lastOp')
          /\ lastOp'.name = lastOp.name )
        => ( /\ lastOp'.hit
             /\ lastOp'.requests = 0
             /\ lastOp'.cities_added = 0 ) ]_vars

\* C9: a resolution of a name that some City row of the store carries
\* returns a City of that name, makes no geocoder request and leaves the
\* Country and City rows as they were.
C9_KnownCityNoRequestNoChange ==
    [][ (IsEnsure(lastOp') /\ Known(cities, lastOp'.name))
        => ( /\ lastOp'.outcome = "ok"
             /\ lastOp'.city \in DOMAIN cities
             /\ cities[lastOp'.city].name = lastOp'.name
             /\ lastOp'.requests = 0
             /\ countries' = countries
             /\ cities' = cities ) ]_vars

\* A resolution was answered from a store holding the City.
C9_Witness ==
    /\ IsEnsure(lastOp)
    /\ lastOp.known
    /\ lastOp.hit
    /\ lastOp.city \in DOMAIN cities
    /\ cities[lastOp.city].name = lastOp.name

\* C10: a resolution whose geocoder response has absent or empty results
\* fails with the not-found error, returns no City and adds no Country and
\* no City row.
C10_NoResultsFailsAddsNothing ==
    [][ (IsEnsure(lastOp') /\ lastOp'.answer \in {"absent", "empty"})
        => ( /\ lastOp'.outcome = "NoResults"
             /\ lastOp'.city = 0
             /\ countries' = countries
             /\ cities' = cities ) ]_vars

\* A resolution over a store with rows ended with the not-found error on an
\* empty list of results.
C10_Witness ==
    /\ IsEnsure(lastOp)
    /\ lastOp.answer = "empty"
    /\ lastOp.outcome = "NoResults"
    /\ cities # << >>

\* C11: when every attempt of the geocoder's request fails in transport, the
\* resolution ends with the request's error, which is not the not-found
\* error, returns no City and leaves the Country and City rows as they were.
C11_TransportFailureIsNotNotFound ==
    [][ (IsEnsure(lastOp') /\ lastOp'.transport = "failed")
        => ( /\ lastOp'.outcome = "RequestFailed"
             /\ lastOp'.outcome # "NoResults"
             /\ lastOp'.answer = "none"
             /\ lastOp'.city = 0
             /\ countries' = countries
             /\ cities' = cities ) ]_vars

\* A resolution over a store with rows ended with the request's error after
\* the user had mistyped a choice and the geocoder was asked again.
C11_Witness ==
    /\ IsEnsure(lastOp)
    /\ lastOp.transport = "failed"
    /\ lastOp.outcome = "RequestFailed"
    /\ lastOp.requests = 2
    /\ cities # << >>

\* C13: no two Country rows of the store have the same name compared
\* case-insensitively.
C13_CountryNamesUniqueIgnoringCase ==
    \A i, j \in DOMAIN countries :
        ILike(countries[i].name, countries[j].name) => i = j

\* The City row a step added, and the candidate it was made from.
SameCity(row, brief) ==
    row.name = brief.name /\ row.latitude = brief.latitude

C15_AtMostOneCountryAdded ==
    [][ (IsEnsure(lastOp') /\ ~lastOp'.known)
        => /\ lastOp'.countries_added <= 1
           /\ \A i \in (Len(countries) + 1)..Len(countries') :
                 /\ lastOp'.listed # << >>
                 /\ countries'[i].name
                        = lastOp'.listed[lastOp'.choice].country_name
                 /\ \A j \in DOMAIN countries :
                        countries[j].name # countries'[i].name ]_vars

----------------------------------------------------------------------------
(* Location resolution over a store that may refuse a commit *)

FaultRoundSeqs == {<<r>> : r \in FaultRounds}

EnsureLocationOverFaults ==
    \E location_name \in LocationNames, rounds \in FaultRoundSeqs :
        Resolve(location_name, rounds)

FaultsNext == EnsureLocationOverFaults

SpecFaults == Init /\ [][FaultsNext]_vars

\* City.country_id is the id of a Country row (ForeignKey('countries.id')).
Linked(countries_, cities_) ==
    \A i \in DOMAIN cities_ :
        \E j \in DOMAIN countries_ : countries_[j].id = cities_[i].country_id

\* C12: after every resolution, also one that failed part-way, every City
\* row's country_id is the id of a Country row of the store; and the City a
\* resolution adds refers to a Country row named as the candidate's country.
C12_EveryCityHasItsCountry ==
    [][ /\ Linked(countries', cities')
        /\ (IsEnsure(lastOp') /\ lastOp'.cities_added = 1)
              => \E j \in DOMAIN countries' :
                    /\ countries'[j].id = cities'[Len(cities')].country_id
                    /\ countries'[j].name = lastOp'.listed[1].country_name ]_vars

\* A resolution failed at the City's commit after it had committed the
\* Country, over a store that already held Cities.
C12_Witness ==
    /\ IsEnsure(lastOp)
    /\ lastOp.outcome = "SQLAlchemyError"
    /\ lastOp.countries_added = 1
    /\ lastOp.cities_added = 0
    /\ cities # << >>
    /\ Linked(countries, cities)

\* C16: a resolution during which the store refused a write ends with the
\* error raised to the caller, never with success.
C16_WriteFailureIsRaised ==
    [][ (IsEnsure(lastOp') /\ lastOp'.write_failed)
        => lastOp'.outcome # "ok" ]_vars

----------------------------------------------------------------------------
(* Hydration over the store *)

Days == 1..MaxDay

\* What the archive was heard to answer: "none" when the transport never did.
Heard(input) == IF input.fails = DefaultMaxRetries THEN "none" ELSE input.kind

\* The store after "London" was resolved from the geocoder's first candidate.
ResolvedStore ==
    EnsureLocationInDatabase(
        [countries |-> << >>, cities |-> << >>], "London",
        << [fails |-> 0, choice |-> 1, commit |-> "none",
            answer |-> Ok(GeoResults(
                << Candidate("London", 51, "UK", None, "GMT", TRUE) >>))] >>)

HydrationInit ==
    /\ rq = Idle
    /\ countries = ResolvedStore.countries
    /\ cities = ResolvedStore.cities
    /\ entries = EmptyBag
    /\ lastOp = [op |-> "none"]

\* WeatherApiService.fetch_weather_data for a City of the store
\* (LocationManager.fetch_weather_data_for_city).
FetchWeatherDataForCity ==
    \E i \in DOMAIN cities, start_date \in Days, end_date \in Days,
       input \in ArchiveInputs :
        /\ start_date <= end_date
        /\ \E res \in {FetchWeatherData(entries, cities[i].latitude,
                                        cities[i].longitude, start_date,
                                        end_date, cities[i].id, input)} :
            /\ BagCardinality(res.entries) <= MaxEntries
            /\ entries' = res.entries
            /\ lastOp' = [ op |-> "fetch_weather_data",
                           city_id |-> cities[i].id,
                           start_date |-> start_date,
                           end_date |-> end_date,
                           heard |-> Heard(input),
                           failure |-> res.failure,
                           raised |-> res.raised,
                           returned |-> IF res.returned = EmptyWeatherData
                                        THEN "empty" ELSE "weather_data",
                           requests |-> res.requests ]
        /\ UNCHANGED <<rq, countries, cities>>

\* LocationManager.fetch_location_weather_data with the list that
\* ensure_location_in_database returned.
FetchLocationWeather ==
    \E i \in DOMAIN cities, start_date \in Days, end_date \in Days,
       input \in ArchiveInputs :
        /\ start_date <= end_date
        /\ \E res \in {FetchLocationWeatherData(entries, cities[i], start_date,
                                                end_date, input)} :
            /\ BagCardinality(res.entries) <= MaxEntries
            /\ entries' = res.entries
            /\ lastOp' = [ op |-> "fetch_location_weather_data",
                           city_id |-> cities[i].id,
                           start_date |-> start_date,
                           end_date |-> end_date,
                           heard |-> Heard(input),
                           failure |-> res.failure,
                           raised |-> res.raised,
                           returned |-> "nothing",
                           requests |-> res.requests ]
        /\ UNCHANGED <<rq, countries, cities>>

HydrationNext == FetchWeatherDataForCity \/ FetchLocationWeather

SpecHydration == HydrationInit /\ [][HydrationNext]_vars

IsHydration(op) == op.op \in {"fetch_weather_data", "fetch_location_weather_data"}

\* The stored observations of a City dated in [start_date, end_date].
RowsInRange(es, city_id, start_date, end_date) ==
    {row \in BagToSet(es) : InRange(row, city_id, start_date, end_date)}

ObservationsInRange(es, city_id, start_date, end_date) ==
    [row \in RowsInRange(es, city_id, start_date, end_date) |-> es[row]]

\* The store holds an observation of the City for every day of the range.
Covered(es, city_id, start_date, end_date) ==
    \A d \in start_date..end_date :
        \E row \in RowsInRange(es, city_id, start_date, end_date) : row.date = d

\* C3: the store holds at most one DailyWeatherEntry row per (city_id, date).
C3_OneRowPerCityAndDate ==
    \A row \in BagToSet(entries) :
        /\ entries[row] = 1
        /\ \A other \in BagToSet(entries) :
              (other.city_id = row.city_id /\ other.date = row.date) => other = row

\* C4: for a City with no stored observation in [start, end], a hydration
\* that the archive answers with one entry per day, the store accepting the
\* commit, leaves exactly one observation per calendar day of the range:
\* as many rows as days, each with a different date.
C4_FreshRangeOneRowPerDay ==
    [][ ( /\ IsHydration(lastOp')
          /\ lastOp'.heard = "full"
          /\ lastOp'.failure # "CommitError"
          /\ RowsInRange(entries, lastOp'.city_id, lastOp'.start_date,
                         lastOp'.end_date) = {} )
        => LET read == ObservationsInRange(entries', lastOp'.city_id,
                                           lastOp'.start_date, lastOp'.end_date)
               days == lastOp'.end_date - lastOp'.start_date + 1
           IN  /\ BagCardinality(read) = days
               /\ Cardinality({row.date : row \in DOMAIN read}) = days
               /\ {row.date : row \in DOMAIN read}
                      = lastOp'.start_date..lastOp'.end_date ]_vars

\* A range of several days was hydrated and is stored once.
C4_Witness ==
    /\ IsHydration(lastOp)
    /\ lastOp.heard = "full"
    /\ lastOp.failure = None
    /\ lastOp.end_date > lastOp.start_date
    /\ BagCardinality(ObservationsInRange(entries, lastOp.city_id,
                                          lastOp.start_date, lastOp.end_date))
           = lastOp.end_date - lastOp.start_date + 1

\* C5: a hydration of a range the store already covers day by day makes no
\* request to the archive and adds no row.
C5_CoveredRangeNoRequestNoRow ==
    [][ ( /\ IsHydration(lastOp')
          /\ Covered(entries, lastOp'.city_id, lastOp'.start_date,
                     lastOp'.end_date) )
        => (lastOp'.requests = 0 /\ entries' = entries) ]_vars

\* C7: fetch_weather_data raises when the request fails after its retries,
\* when the response has no "daily" block and when the payload fails
\* validation; it returns no empty WeatherData in place of the failure.
C7_FailureIsRaised ==
    ( /\ lastOp.op = "fetch_weather_data"
      /\ lastOp.failure \in {"RequestFailed", "NoDaily", "InvalidData"} )
    => (lastOp.raised /\ lastOp.returned # "empty")

\* C8: a hydration that fails at the archive request, the validation of the
\* payload, the conversion of an entry or the commit leaves the stored
\* DailyWeatherEntry rows exactly as they were.
C8_FailedHydrationStoresNothing ==
    [][ (IsHydration(lastOp') /\ lastOp'.failure # None)
        => entries' = entries ]_vars

\* A hydration of several days failed at the commit over a store with rows.
C8_Witness ==
    /\ IsHydration(lastOp)
    /\ lastOp.failure = "CommitError"
    /\ lastOp.end_date > lastOp.start_date
    /\ entries # EmptyBag

----------------------------------------------------------------------------
(* The seven-day precipitation over the store *)

\* The inputs fetch_seven_day_precipitation reads: none for a City of the
\* store, the geocoder's and the archive's answers otherwise.
NoRounds == << [fails |-> 0, choice |-> 1, answer |-> Invalid, commit |-> "none"] >>
NoArchive == [fails |-> 0, kind |-> "invalid", commit_ok |-> TRUE]

\* Within this handler the transports answer at once or never.
AtOnceOrNever(fails) == fails \in {0, DefaultMaxRetries}

SevenDayRounds == {s \in RoundSeqs(0) : AtOnceOrNever(s[1].fails)}
SevenDayArchive == {a \in ArchiveInputs : AtOnceOrNever(a.fails)}

\* The archive is asked only once the geocoder's City is stored.
SevenDayInputs(location_name) ==
    IF Known(cities, location_name)
    THEN {[rounds |-> NoRounds, input |-> NoArchive, binds |-> b] :
              b \in BOOLEAN}
    ELSE LET st == [countries |-> countries, cities |-> cities]
             stores(r) == FetchCityData(st, location_name, r).outcome = "ok"
         IN  {[rounds |-> r, input |-> NoArchive, binds |-> TRUE] :
                  r \in {x \in SevenDayRounds : ~stores(x)}}
             \cup {[rounds |-> r, input |-> a, binds |-> TRUE] :
                  r \in {x \in SevenDayRounds : stores(x)}, a \in SevenDayArchive}

\* LocationManager.fetch_seven_day_precipitation
FetchSevenDay ==
    \E location_name \in LocationNames, start_date \in Days :
      \E in \in SevenDayInputs(location_name) :
        \E res \in {FetchSevenDayPrecipitation(
                        [countries |-> countries, cities |-> cities,
                         entries |-> entries],
                        location_name, start_date, in.rounds, in.input,
                        in.binds)} :
            /\ Len(res.countries) <= MaxCountries
            /\ Len(res.cities) <= MaxCities
            /\ countries' = res.countries
            /\ cities' = res.cities
            /\ entries' = res.entries
            /\ lastOp' = [ op |-> "fetch_seven_day_precipitation",
                           name |-> location_name,
                           known |-> Known(cities, location_name),
                           start_date |-> start_date,
                           end_date |-> start_date + WindowDays,
                           outcome |-> res.outcome,
                           failure |-> res.failure,
                           raised |-> res.outcome \notin {"existing_data", "empty_dict"},
                           requests |-> res.archive_requests,
                           city_id |-> res.city_id,
                           rows |-> res.rows ]
            /\ UNCHANGED rq

SevenDayNext == FetchSevenDay

SpecSevenDay == HydrationInit /\ [][SevenDayNext]_vars

\* C6: for a City of the store whose observations do not cover the seven-day
\* window, fetch_seven_day_precipitation requests the window from the
\* archive, and the store covers the window once the archive has answered
\* it in full.
C6_GapIsFetched ==
    [][ ( /\ lastOp'.op = "fetch_seven_day_precipitation"
          /\ Known(cities, lastOp'.name)
          /\ ~Covered(entries, cities[GetCityFromDb(cities, lastOp'.name)].id,
                      lastOp'.start_date, lastOp'.end_date) )
        => ( /\ lastOp'.requests >= 1
             /\ lastOp'.failure = None =>
                   Covered(entries', cities[GetCityFromDb(cities, lastOp'.name)].id,
                           lastOp'.start_date, lastOp'.end_date) ) ]_vars

----------------------------------------------------------------------------
(* The queries over the store *)

\* The calendar of the days: day 1 is 2023-12-31, day 2 is 2024-01-01,
\* day 32 is 2024-01-31, day 33 is 2024-02-01.
YearOf(d) == IF d <= 1 THEN 2023 ELSE 2024
MonthOf(d) == IF d <= 1 THEN 12 ELSE IF d <= 32 THEN 1 ELSE 2

\* The days observations are stored for: around the ends of a seven-day
\* window, of the year and of a month.
QueryDays == {1, 8, 9, 34}
Years == {2023, 2024}
CountryNames == {"uk", "London", "France"}

\* A resolution the geocoder answers at once with one candidate.
ResolvedAgain(st, location_name, c) ==
    EnsureLocationInDatabase(
        st, location_name,
        << [fails |-> 0, choice |-> 1, commit |-> "none",
            answer |-> Ok(GeoResults(<<c>>))] >>)

\* The stores after "London" and then "london" were resolved: two Cities of
\* one Country, or two Cities of two Countries whose names differ in case.
QueryStores ==
    { ResolvedAgain([countries |-> ResolvedStore.countries,
                     cities |-> ResolvedStore.cities], "london", c) :
          c \in ListedCandidates }

QueryInit ==
    /\ rq = Idle
    /\ \E st \in QueryStores :
          /\ countries = st.countries
          /\ cities = st.cities
    /\ entries = EmptyBag
    /\ lastOp = [op |-> "none"]

\* WeatherApiService.fetch_weather_data for one day of a City of the store,
\* the archive answering at once and in full.
FetchDayForCity ==
    \E i \in DOMAIN cities, day \in QueryDays :
        \E res \in {FetchWeatherData(entries, cities[i].latitude,
                                     cities[i].longitude, day, day, cities[i].id,
                                     [fails |-> 0, kind |-> "full",
                                      commit_ok |-> TRUE])} :
            /\ BagCardinality(res.entries) <= MaxEntries
            /\ entries' = res.entries
            /\ lastOp' = [ op |-> "fetch_weather_data",
                           city_id |-> cities[i].id,
                           start_date |-> day,
                           end_date |-> day,
                           failure |-> res.failure,
                           requests |-> res.requests ]
            /\ UNCHANGED <<rq, countries, cities>>

\* LocationManager.fetch_seven_day_precipitation for a City of the store.
FetchSevenDayOfStore ==
    \E location_name \in LocationNames, start_date \in Days, binds \in BOOLEAN :
        /\ Known(cities, location_name)
        /\ \E res \in {FetchSevenDayPrecipitation(
                            [countries |-> countries, cities |-> cities,
                             entries |-> entries],
                            location_name, start_date, NoRounds, NoArchive,
                            binds)} :
            /\ lastOp' = [ op |-> "fetch_seven_day_precipitation",
                           name |-> location_name,
                           known |-> TRUE,
                           start_date |-> start_date,
                           end_date |-> start_date + WindowDays,
                           outcome |-> res.outcome,
                           failure |-> res.failure,
                           raised |-> res.outcome = "StatementError",
                           requests |-> res.archive_requests,
                           city_id |-> res.city_id,
                           rows |-> res.rows ]
        /\ UNCHANGED <<rq, countries, cities, entries>>

\* timedelta(days=6) of average_seven_day_precipitation
QueryWindowDaysOffByOne == 6 + 1
QueryWindowDays == 6

\* Lines 178-188 of average_seven_day_precipitation: the first City whose
\* name matches without regard to case, then its rows of the window;
\* city.id of no City raises AttributeError.
SevenDayRowsOfCity(cs, es, city_name, start_date) ==
    LET city == FirstIndex(cs, LAMBDA c : ILike(c.name, city_name))
        end_date == start_date + QueryWindowDays
    IN  IF city = 0
        THEN [outcome |-> "AttributeError", city_id |-> 0, end_date |-> end_date,
              rows |-> EmptyBag, queries |-> 1]
        ELSE [outcome |-> "precip_data", city_id |-> cs[city].id,
              end_date |-> end_date,
              rows |-> RowsBetween(es, cs[city].id, start_date, end_date),
              queries |-> 2]

\* SQLiteQuery.average_seven_day_precipitation: datetime.strptime of a text
\* that is no date raises ValueError, which nothing catches.
AverageSevenDayPrecipitation(cs, es, city_name, start_date) ==
    IF ~start_date.valid
    THEN [outcome |-> "ValueError", city_id |-> 0, end_date |-> 0,
          rows |-> EmptyBag, queries |-> 0]
    ELSE SevenDayRowsOfCity(cs, es, city_name, start_date.day)

AverageSevenDay ==
    \E city_name \in LocationNames,
       start_date \in {DateStr(d) : d \in Days} \cup {BadDateStr} :
        \E res \in {AverageSevenDayPrecipitation(cities, entries, city_name,
                                                 start_date)} :
            /\ lastOp' = [ op |-> "average_seven_day_precipitation",
                           name |-> city_name,
                           known |-> res.city_id # 0,
                           parses |-> start_date.valid,
                           start_date |-> IF start_date.valid
                                          THEN start_date.day ELSE 0,
                           end_date |-> res.end_date,
                           outcome |-> res.outcome,
                           failure |-> None,
                           raised |-> res.outcome \in {"AttributeError",
                                                       "ValueError"},
                           requests |-> 0,
                           queries |-> res.queries,
                           city_id |-> res.city_id,
                           rows |-> res.rows ]
            /\ UNCHANGED <<rq, countries, cities, entries>>

\* The rows the joins and filters of average_annual_precipitation_by_country
\* select: those of the Cities of the Country dated from the first of January
\* to the thirty-first of December of the year.
AnnualRowsOfAnyCountry(cs, es, country_id, year) ==
    LET chosen == {row \in BagToSet(es) :
                       /\ \E i \in DOMAIN cs : cs[i].id = row.city_id
                       /\ YearOf(row.date) = year}
    IN  [row \in chosen |-> es[row]]
AnnualRows(cs, es, country_id, year) ==
    LET chosen == {row \in BagToSet(es) :
                       /\ \E i \in DOMAIN cs :
                             /\ cs[i].id = row.city_id
                             /\ cs[i].country_id = country_id
                       /\ YearOf(row.date) = year}
    IN  [row \in chosen |-> es[row]]

\* func.sum(DailyWeatherEntry.precipitation)
RECURSIVE SumPrecipitation(_)
SumPrecipitation(rows) ==
    IF DOMAIN rows = {} THEN 0
    ELSE LET row == CHOOSE r \in DOMAIN rows : TRUE
         IN  rows[row] * row.precipitation
             + SumPrecipitation([r \in DOMAIN rows \ {row} |-> rows[r]])

\* round(x, 2) of thousandths of a millimetre. The readings are even
\* numbers of thousandths, so no sum lies half-way between two hundredths.
Round2(x) == 10 * ((x + 5) \div 10)

\* Lines 450-490: the sum of each month that has rows and the sum of the
\* year (0 when there is none), each rounded.
AnnualSumsAbsentWhenEmpty(rows) ==
    [ found |-> DOMAIN rows # {},
      total_precipitation |->
          IF DOMAIN rows = {} THEN 0 ELSE Round2(SumPrecipitation(rows)),
      monthly_precipitation |-> << >> ]
AnnualSums(rows) ==
    LET of(month) == [row \in {r \in DOMAIN rows : MonthOf(r.date) = month}
                        |-> rows[row]]
    IN  [ found |-> TRUE,
          total_precipitation |->
              IF DOMAIN rows = {} THEN 0 ELSE Round2(SumPrecipitation(rows)),
          monthly_precipitation |->
              [month \in {MonthOf(row.date) : row \in DOMAIN rows}
                  |-> Round2(SumPrecipitation(of(month)))] ]

\* average_annual_precipitation_by_country: the first Country whose name
\* matches without regard to case; None when there is none.
AverageAnnualPrecipitationByCountry(countries_, cs, es, country_name, year) ==
    LET country == FirstIndex(countries_, LAMBDA c : ILike(c.name, country_name))
    IN  IF country = 0
        THEN [found |-> FALSE, total_precipitation |-> 0,
              monthly_precipitation |-> << >>]
        ELSE AnnualSums(AnnualRows(cs, es, countries_[country].id, year))

AverageAnnualPrecipitation ==
    \E country_name \in CountryNames, year \in Years :
        \E res \in {AverageAnnualPrecipitationByCountry(
                        countries, cities, entries, country_name, year)} :
            /\ lastOp' = [ op |-> "average_annual_precipitation_by_country",
                           country_name |-> country_name,
                           year |-> year,
                           found |-> res.found,
                           total_precipitation |-> res.total_precipitation,
                           monthly_precipitation |-> res.monthly_precipitation ]
            /\ UNCHANGED <<rq, countries, cities, entries>>

\* func.avg(DailyWeatherEntry.mean_temp).scalar(): None over no row, else
\* the sum of the values over their number.
RECURSIVE SumMeanTemp(_)
SumMeanTemp(rows) ==
    IF DOMAIN rows = {} THEN 0
    ELSE LET row == CHOOSE r \in DOMAIN rows : TRUE
         IN  rows[row] * row.mean_temp
             + SumMeanTemp([r \in DOMAIN rows \ {row} |-> rows[r]])

AvgMeanTemp(rows) ==
    IF DOMAIN rows = {} THEN None
    ELSE [num |-> SumMeanTemp(rows), den |-> BagCardinality(rows)]

\* The rows of a City dated from the first of January to the thirty-first
\* of December of the year.
RowsOfYear(es, city_id, year) ==
    LET chosen == {row \in BagToSet(es) :
                       row.city_id = city_id /\ YearOf(row.date) = year}
    IN  [row \in chosen |-> es[row]]

\* SQLiteQuery.get_average_temperature
GetAverageTemperature(es, city_id, year) ==
    AvgMeanTemp(RowsOfYear(es, city_id, year))

\* SQLiteQuery.average_temp_by_city: None when no City has the name.
AverageTempByCity(cs, es, start_date, end_date, city_name) ==
    LET city == FirstIndex(cs, LAMBDA c : ILike(c.name, city_name))
    IN  IF city = 0 THEN None
        ELSE AvgMeanTemp(RowsBetween(es, cs[city].id, start_date, end_date))

AverageTemperatureOfYear ==
    \E city_id \in 1..MaxCities, year \in Years :
        /\ lastOp' = [ op |-> "get_average_temperature",
                       city_id |-> city_id,
                       year |-> year,
                       result |-> GetAverageTemperature(entries, city_id, year) ]
        /\ UNCHANGED <<rq, countries, cities, entries>>

AverageTemperatureOfCity ==
    \E city_name \in LocationNames \cup {"Paris"}, start_date \in Days,
       end_date \in QueryDays :
        /\ start_date <= end_date
        /\ lastOp' = [ op |-> "average_temp_by_city",
                       name |-> city_name,
                       start_date |-> start_date,
                       end_date |-> end_date,
                       result |-> AverageTempByCity(cities, entries, start_date,
                                                    end_date, city_name) ]
        /\ UNCHANGED <<rq, countries, cities, entries>>

QueryNext ==
    \/ FetchDayForCity
    \/ FetchSevenDayOfStore
    \/ AverageSevenDay
    \/ AverageAnnualPrecipitation
    \/ AverageTemperatureOfYear
    \/ AverageTemperatureOfCity

SpecQuery == QueryInit /\ [][QueryNext]_vars

\* C19: a seven-day precipitation query for a City and a start date d uses
\* exactly the stored observations of that City dated d to d + 6 inclusive:
\* none before d, none after d + 6, none of another City.
C19_SevenDayWindowIsExact ==
    ( /\ lastOp.op \in {"fetch_seven_day_precipitation",
                        "average_seven_day_precipitation"}
      /\ lastOp.outcome \in {"existing_data", "empty_dict", "precip_data"} )
    => /\ \E i \in 1..Len(cities) :
             /\ cities[i].id = lastOp.city_id
             /\ Lower(cities[i].name) = Lower(lastOp.name)
       /\ DOMAIN lastOp.rows =
             {row \in BagToSet(entries) :
                 /\ row.city_id = lastOp.city_id
                 /\ row.date >= lastOp.start_date
                 /\ row.date <= lastOp.start_date + 6}
       /\ \A row \in DOMAIN lastOp.rows : lastOp.rows[row] = entries[row]

\* The query returned the observation of the seventh day of a City and left
\* out its observation of the eighth and the observations of another City.
C19_Witness ==
    /\ lastOp.op = "average_seven_day_precipitation"
    /\ lastOp.outcome = "precip_data"
    /\ \E row \in DOMAIN lastOp.rows : row.date = lastOp.start_date + 6
    /\ \E row \in BagToSet(entries) :
          row.city_id = lastOp.city_id /\ row.date = lastOp.start_date + 7
    /\ \E row \in BagToSet(entries) : row.city_id # lastOp.city_id

\* The stored observations of the year of the Cities of the Country: all
\* of them, or those of one month.
CountedRows(country_id, year, months) ==
    {row \in BagToSet(entries) :
        /\ \E i \in 1..Len(cities) :
              cities[i].id = row.city_id /\ cities[i].country_id = country_id
        /\ YearOf(row.date) = year
        /\ MonthOf(row.date) \in months}

RECURSIVE TotalOf(_)
TotalOf(rows) ==
    IF rows = {} THEN 0
    ELSE LET row == CHOOSE r \in rows : TRUE
         IN  entries[row] * row.precipitation + TotalOf(rows \ {row})

RECURSIVE TotalOfMonths(_, _, _)
TotalOfMonths(country_id, year, months) ==
    IF months = {} THEN 0
    ELSE LET month == CHOOSE m \in months : TRUE
         IN  TotalOf(CountedRows(country_id, year, {month}))
             + TotalOfMonths(country_id, year, months \ {month})

\* C20: for a Country of the store and a year,
\* average_annual_precipitation_by_country returns as total the sum of the
\* precipitation of all observations of the year of every City of the
\* Country, and by month a mapping from each month that has such an
\* observation to the sum of the month, both rounded to hundredths; the
\* sum of the year is the sum of the sums of the months.
C20_AnnualPrecipitationSums ==
    (lastOp.op = "average_annual_precipitation_by_country" /\ lastOp.found)
    => \E i \in 1..Len(countries) :
         /\ Lower(countries[i].name) = Lower(lastOp.country_name)
         /\ \A j \in 1..(i - 1) :
               Lower(countries[j].name) # Lower(lastOp.country_name)
         /\ LET id == countries[i].id
                year == lastOp.year
                months == {MonthOf(row.date) : row \in CountedRows(id, year, 1..12)}
            IN  /\ lastOp.total_precipitation =
                      Round2(TotalOf(CountedRows(id, year, 1..12)))
                /\ DOMAIN lastOp.monthly_precipitation = months
                /\ \A month \in months :
                      lastOp.monthly_precipitation[month] =
                          Round2(TotalOf(CountedRows(id, year, {month})))
                /\ TotalOf(CountedRows(id, year, 1..12)) =
                      TotalOfMonths(id, year, months)

\* The query summed the observations of two Cities of the Country in two
\* months and left out an observation of another year.
C20_Witness ==
    /\ lastOp.op = "average_annual_precipitation_by_country"
    /\ lastOp.found
    /\ lastOp.year = 2024
    /\ DOMAIN lastOp.monthly_precipitation = {1, 2}
    /\ lastOp.total_precipitation > 0
    /\ \E r1, r2 \in BagToSet(entries) :
          /\ r1.city_id # r2.city_id
          /\ MonthOf(r1.date) = 1 /\ YearOf(r1.date) = 2024
          /\ MonthOf(r2.date) = 2
    /\ \E row \in BagToSet(entries) : YearOf(row.date) = 2023

----------------------------------------------------------------------------
(* Payload normalisation: WeatherData.is_valid and map_to_daily_weather *)

\* What can be wrong with the last value of a list of the payload.
PayloadFlaws == {"none", "bad_date", "null_temp", "null_precip"}

\* A "daily" block whose lists start at the same day and have the given
\* lengths.
Payload(start, lens, flaw) ==
    LET time == SeqOver(start, start + lens[1] - 1, DateStr)
        tmax == SeqOver(start, start + lens[2] - 1, LAMBDA d : Num(ArchiveMax(d)))
        tmin == SeqOver(start, start + lens[3] - 1, LAMBDA d : Num(ArchiveMin(d)))
        prec == SeqOver(start, start + lens[4] - 1, LAMBDA d : Num(ArchivePrecip(d)))
    IN  [ time |-> IF flaw = "bad_date" /\ time # << >>
                   THEN [time EXCEPT ![Len(time)] = BadDateStr] ELSE time,
          temperature_2m_max |-> IF flaw = "null_temp" /\ tmax # << >>
                                 THEN NullLast(tmax) ELSE tmax,
          temperature_2m_min |-> tmin,
          precipitation_sum |-> IF flaw = "null_precip" /\ prec # << >>
                                THEN NullLast(prec) ELSE prec ]

PayloadLengths == (0..MaxDay) \X (0..MaxDay) \X (0..MaxDay) \X (0..MaxDay)

\* A payload and a city_id are at hand.
PayloadInit ==
    /\ rq = Idle
    /\ countries = << >>
    /\ cities = << >>
    /\ entries = EmptyBag
    /\ \E start \in Days, lens \in PayloadLengths, flaw \in PayloadFlaws,
          city_id \in 1..MaxCities :
            lastOp = [ op |-> "payload",
                       start |-> start,
                       lens |-> lens,
                       flaw |-> flaw,
                       city_id |-> city_id ]

\* WeatherData(daily).map_to_daily_weather(city_id), which starts with
\* is_valid().
Normalize ==
    /\ lastOp.op = "payload"
    /\ \E res \in {MapToDailyWeather(
                        WeatherData(Payload(lastOp.start, lastOp.lens, lastOp.flaw)),
                        lastOp.city_id)} :
            lastOp' = [ op |-> "map_to_daily_weather",
                        start |-> lastOp.start,
                        lens |-> lastOp.lens,
                        flaw |-> lastOp.flaw,
                        city_id |-> lastOp.city_id,
                        error |-> res.error,
                        list |-> res.list ]
    /\ UNCHANGED <<rq, countries, cities, entries>>

PayloadNext == Normalize

SpecPayload == PayloadInit /\ [][PayloadNext]_vars

IsNormalize(op) == op.op = "map_to_daily_weather"

\* The four lists have one length.
EqualLengths(lens) ==
    lens[1] = lens[2] /\ lens[2] = lens[3] /\ lens[3] = lens[4]

\* C17: normalisation of a payload whose four lists are not all of the same
\* length fails with an error and produces no entry.
C17_UnequalLengthsFail ==
    (IsNormalize(lastOp) /\ ~EqualLengths(lastOp.lens))
        => (lastOp.error # None /\ lastOp.list = << >>)

\* C18: for a payload of n >= 1 days with well-formed dates and numeric
\* temperatures, map_to_daily_weather returns n entries in payload order;
\* entry i carries the i-th date, minimum, maximum and precipitation, the
\* given city_id and the mean of the i-th maximum and minimum.
C18_MapToDailyWeatherIsPointwise ==
    ( /\ IsNormalize(lastOp)
      /\ EqualLengths(lastOp.lens)
      /\ lastOp.lens[1] >= 1
      /\ lastOp.flaw \in {"none", "null_precip"} )
    => /\ lastOp.error = None
       /\ Len(lastOp.list) = lastOp.lens[1]
       /\ \A i \in 1..lastOp.lens[1] :
             LET d == lastOp.start + i - 1
                 e == lastOp.list[i]
             IN  /\ e.city_id = lastOp.city_id
                 /\ e.date = d
                 /\ e.max_temp = 20 + 2 * d
                 /\ e.min_temp = 2 * d
                 /\ 2 * e.mean_temp = e.max_temp + e.min_temp
                 /\ e.precipitation =
                        IF lastOp.flaw = "null_precip" /\ i = lastOp.lens[1]
                        THEN JsonNull ELSE Num(ArchivePrecip(d))

\* A payload of several days was mapped, entry by entry.
C18_Witness ==
    /\ IsNormalize(lastOp)
    /\ EqualLengths(lastOp.lens)
    /\ lastOp.lens[1] >= 2
    /\ lastOp.flaw = "none"
    /\ lastOp.error = None
    /\ Len(lastOp.list) = lastOp.lens[1]
    /\ lastOp.list[2].date = lastOp.list[1].date + 1

----------------------------------------------------------------------------
(* Results over no observation *)

\* C21: for a Country of the store with no observation in the year,
\* average_annual_precipitation_by_country returns a result with total 0
\* and an empty mapping of months, not an absent result; the averages of a
\* City (get_average_temperature, average_temp_by_city) are absent (None)
\* when no observation matches.
C21_EmptyTotalIsZeroEmptyAverageIsAbsent ==
    /\ ( /\ lastOp.op = "average_annual_precipitation_by_country"
         /\ \E i \in 1..Len(countries) :
               /\ Lower(countries[i].name) = Lower(lastOp.country_name)
               /\ \A j \in 1..(i - 1) :
                     Lower(countries[j].name) # Lower(lastOp.country_name)
               /\ CountedRows(countries[i].id, lastOp.year, 1..12) = {} )
       => ( /\ lastOp.found
            /\ lastOp.total_precipitation = 0
            /\ DOMAIN lastOp.monthly_precipitation = {} )
    /\ ( /\ lastOp.op = "get_average_temperature"
         /\ \A row \in BagToSet(entries) :
               ~(row.city_id = lastOp.city_id /\ YearOf(row.date) = lastOp.year) )
       => lastOp.result = None
    /\ ( /\ lastOp.op = "average_temp_by_city"
         /\ \A row \in BagToSet(entries), i \in 1..Len(cities) :
               ~( /\ Lower(cities[i].name) = Lower(lastOp.name)
                  /\ \A j \in 1..(i - 1) :
                        Lower(cities[j].name) # Lower(lastOp.name)
                  /\ row.city_id = cities[i].id
                  /\ row.date >= lastOp.start_date
                  /\ row.date <= lastOp.end_date ) )
       => lastOp.result = None

\* The Country has Cities with observations, none of them in the year asked
\* for, and the query answered with a total of 0.
C21_Witness ==
    /\ lastOp.op = "average_annual_precipitation_by_country"
    /\ lastOp.found
    /\ lastOp.total_precipitation = 0
    /\ lastOp.year = 2023
    /\ \E i \in 1..Len(countries) :
          /\ Lower(countries[i].name) = Lower(lastOp.country_name)
          /\ CountedRows(countries[i].id, 2024, 1..12) # {}
          /\ CountedRows(countries[i].id, 2023, 1..12) = {}

\* C24: average_seven_day_precipitation called with a start date that does
\* not parse as a date returns None instead of raising, and performs no
\* query of the store.
C24_UnparsableStartDateReturnsNone ==
    (lastOp.op = "average_seven_day_precipitation" /\ ~lastOp.parses)
        => ( /\ ~lastOp.raised
             /\ lastOp.outcome = "None"
             /\ lastOp.queries = 0 )

----------------------------------------------------------------------------
(* SQLiteQuery.get_monthly_average_temperature *)

\* The mean temperatures of the entries handed in (half degrees).
MeanTemps == {12, 27}

\* The lists of daily entries handed in, of at most MaxEntries entries.
RECURSIVE EntryLists(_)
EntryLists(n) ==
    IF n = 0 THEN {<< >>}
    ELSE LET shorter == EntryLists(n - 1)
         IN  shorter \cup
             { Append(list, [date |-> d, mean_temp |-> t]) :
                   list \in {l \in shorter : Len(l) = n - 1},
                   d \in QueryDays, t \in MeanTemps }

\* monthly_data[month].append(entry.mean_temp) for every entry of the month
RECURSIVE TempsOfMonth(_, _)
TempsOfMonth(daily_weather_entries, month) ==
    IF daily_weather_entries = << >> THEN << >>
    ELSE LET entry == Head(daily_weather_entries)
             rest == TempsOfMonth(Tail(daily_weather_entries), month)
         IN  IF MonthOf(entry.date) = month
             THEN <<entry.mean_temp>> \o rest ELSE rest

\* sum(temps)
RECURSIVE SumTemps(_)
SumTemps(temps) ==
    IF temps = << >> THEN 0 ELSE Head(temps) + SumTemps(Tail(temps))

\* get_monthly_average_temperature: sum(temps)/len(temps) for the months of
\* the entries, kept as the fraction.
GetMonthlyAverageTemperatureOfAll(daily_weather_entries) ==
    [ month \in {MonthOf(daily_weather_entries[i].date) :
                    i \in DOMAIN daily_weather_entries}
        |-> [ num |-> SumTemps([i \in DOMAIN daily_weather_entries
                                  |-> daily_weather_entries[i].mean_temp]),
              den |-> Len(daily_weather_entries) ] ]
GetMonthlyAverageTemperature(daily_weather_entries) ==
    [ month \in {MonthOf(daily_weather_entries[i].date) :
                    i \in DOMAIN daily_weather_entries}
        |-> [ num |-> SumTemps(TempsOfMonth(daily_weather_entries, month)),
              den |-> Len(TempsOfMonth(daily_weather_entries, month)) ] ]

\* The observations of the store while the function is called: none, or
\* those of a day of February of the first City.
MonthlyStores ==
    { EmptyBag,
      FetchWeatherData(EmptyBag, 51, 0, 34, 34, 1,
                       [fails |-> 0, kind |-> "full", commit_ok |-> TRUE]).entries }

MonthlyInit ==
    /\ rq = Idle
    /\ \E st \in QueryStores :
          /\ countries = st.countries
          /\ cities = st.cities
    /\ entries \in MonthlyStores
    /\ \E list \in EntryLists(MaxEntries) :
          lastOp = [op |-> "entries", daily_weather_entries |-> list]

MonthlyAverage ==
    /\ lastOp.op = "entries"
    /\ lastOp' = [ op |-> "get_monthly_average_temperature",
                   daily_weather_entries |-> lastOp.daily_weather_entries,
                   result |-> GetMonthlyAverageTemperature(
                                  lastOp.daily_weather_entries) ]
    /\ UNCHANGED <<rq, countries, cities, entries>>

MonthlyNext == MonthlyAverage

SpecMonthly == MonthlyInit /\ [][MonthlyNext]_vars

\* The positions of the entries of a month in the list handed in.
PositionsOfMonth(list, month) ==
    {i \in 1..Len(list) : MonthOf(list[i].date) = month}

RECURSIVE SumAt(_, _)
SumAt(list, positions) ==
    IF positions = {} THEN 0
    ELSE LET i == CHOOSE j \in positions : TRUE
         IN  list[i].mean_temp + SumAt(list, positions \ {i})

\* C22: get_monthly_average_temperature returns a mapping whose keys are
\* exactly the months that occur among the dates of the entries handed in,
\* each mapped to the arithmetic mean of mean_temp over the entries of that
\* month; the result depends on the list alone, whatever the store holds.
C22_MonthlyAverageOfPassedEntries ==
    lastOp.op = "get_monthly_average_temperature"
    => LET list == lastOp.daily_weather_entries
       IN  /\ DOMAIN lastOp.result =
                 {month \in 1..12 : PositionsOfMonth(list, month) # {}}
           /\ \A month \in DOMAIN lastOp.result :
                 /\ lastOp.result[month].den > 0
                 /\ lastOp.result[month].num
                        * Cardinality(PositionsOfMonth(list, month))
                    = SumAt(list, PositionsOfMonth(list, month))
                        * lastOp.result[month].den

\* Entries of two months were averaged, two of them of one month with
\* different temperatures, while the store held another observation.
C22_Witness ==
    /\ lastOp.op = "get_monthly_average_temperature"
    /\ Cardinality(DOMAIN lastOp.result) = 2
    /\ \E month \in DOMAIN lastOp.result :
          /\ lastOp.result[month].den = 2
          /\ lastOp.result[month].num = 39
    /\ entries # EmptyBag

----------------------------------------------------------------------------
(* InputHandler.get_date_input *)

\* datetime.now(), as a day
Today == 2

\* What the user types at the prompt: text that strptime rejects, or a date
\* in the format %Y-%m-%d.
Unparsable == [parses |-> FALSE]
Typed(day) == [parses |-> TRUE, day |-> day]
TypedInputs == {Unparsable} \cup {Typed(day) : day \in 1..(Today + 1)}

RECURSIVE InputSeqs(_)
InputSeqs(n) ==
    IF n = 0 THEN {<< >>}
    ELSE LET shorter == InputSeqs(n - 1)
         IN  shorter \cup
             { Append(typed, t) :
                   typed \in {x \in shorter : Len(x) = n - 1}, t \in TypedInputs }

\* get_date_input is called; the user types typed, one text per prompt.
DateInputInit ==
    /\ rq = Idle
    /\ countries = << >>
    /\ cities = << >>
    /\ entries = EmptyBag
    /\ \E typed \in InputSeqs(MaxInputs) :
          lastOp = [ op |-> "get_date_input", typed |-> typed, read |-> 0,
                     status |-> "prompting", result |-> None ]

\* One pass of the while loop: input(prompt), strptime, the comparison with
\* datetime.now(). The except clause calls InputHandler.logging, which the
\* class does not have (its logger is InputHandler.logger): AttributeError
\* leaves the function.
DateInputPass(user_input) ==
    IF ~user_input.parses
    THEN [status |-> "raised", result |-> "AttributeError"]
    ELSE IF user_input.day > Today
    THEN [status |-> "prompting", result |-> None]
    ELSE [status |-> "returned", result |-> user_input.day]

PromptDate ==
    /\ lastOp.op = "get_date_input"
    /\ lastOp.status = "prompting"
    /\ lastOp.read < Len(lastOp.typed)
    /\ lastOp' = [ op |-> "get_date_input",
                   typed |-> lastOp.typed,
                   read |-> lastOp.read + 1 ]
                 @@ DateInputPass(lastOp.typed[lastOp.read + 1])
    /\ UNCHANGED <<rq, countries, cities, entries>>

DateInputNext == PromptDate

SpecDateInput == DateInputInit /\ [][DateInputNext]_vars

\* The text is a date of the format that is not in the future.
ValidDate(t) == t.parses /\ t.day <= Today

\* C23: get_date_input keeps prompting after every input that is not a
\* valid date of the format or is a future date, without raising, and
\* returns the first valid date that is not in the future; the inputs before
\* it are discarded.
C23_PromptsUntilValidDate ==
    lastOp.op = "get_date_input"
    => /\ lastOp.status # "raised"
       /\ lastOp.status = "returned"
            => /\ ValidDate(lastOp.typed[lastOp.read])
               /\ lastOp.result = lastOp.typed[lastOp.read].day
               /\ \A i \in 1..(lastOp.read - 1) : ~ValidDate(lastOp.typed[i])
       /\ lastOp.status = "prompting"
            => \A i \in 1..lastOp.read : ~ValidDate(lastOp.typed[i])

----------------------------------------------------------------------------
(* WeatherDataApplication.run *)

MENU_EXIT == 0
MENU_ANNUAL_PRECIP_CITY == 6

\* What get_integer_input returns: a choice of the menu or a number that is
\* none.
MenuChoices == MENU_EXIT..(MENU_ANNUAL_PRECIP_CITY + 1)

\* The application after __init__: at the menu, the connection open.
MenuInit ==
    /\ rq = Idle
    /\ countries = << >>
    /\ cities = << >>
    /\ entries = EmptyBag
    /\ lastOp = [ op |-> "run", state |-> "menu", connection |-> "open",
                  closes |-> 0, choices |-> << >>, raised |-> << >> ]

\* The try block of run for a choice: exit_application and break on
\* MENU_EXIT; otherwise the handler of the choice, whose Exception is caught
\* and printed, or the message of an invalid choice.
HandleChoiceStoppingOnError(app, choice, raises) ==
    IF choice = MENU_EXIT \/ raises
    THEN [app EXCEPT !.state = "stopped", !.connection = "closed",
                     !.closes = @ + 1]
    ELSE app
HandleChoice(app, choice, raises) ==
    IF choice = MENU_EXIT
    THEN [app EXCEPT !.state = "stopped", !.connection = "closed",
                     !.closes = @ + 1]
    ELSE app

\* One pass of the while loop of run.
MenuPass ==
    /\ lastOp.op = "run"
    /\ lastOp.state = "menu"
    /\ Len(lastOp.choices) < MaxInputs
    /\ \E choice \in MenuChoices, raises \in BOOLEAN :
          /\ raises => choice \in (MENU_EXIT + 1)..MENU_ANNUAL_PRECIP_CITY
          /\ lastOp' = HandleChoice(
                           [lastOp EXCEPT !.choices = Append(@, choice),
                                          !.raised = Append(@, raises)],
                           choice, raises)
    /\ UNCHANGED <<rq, countries, cities, entries>>

MenuNext == MenuPass

SpecMenu == MenuInit /\ [][MenuNext]_vars

\* C25: the menu loop keeps running after every choice other than 0, unknown
\* choices and choices whose handler raises included; on choice 0 it closes
\* the database connection exactly once and stops, and the connection is
\* never closed before choice 0.
C25_LoopRunsUntilExitClosesOnce ==
    lastOp.op = "run"
    => LET n == Len(lastOp.choices)
           exited == n > 0 /\ lastOp.choices[n] = 0
       IN  /\ \A i \in 1..(n - 1) : lastOp.choices[i] # 0
           /\ exited <=> lastOp.state = "stopped"
           /\ ~exited => ( /\ lastOp.state = "menu"
                           /\ lastOp.connection = "open"
                           /\ lastOp.closes = 0 )
           /\ exited => ( /\ lastOp.connection = "closed"
                          /\ lastOp.closes = 1 )

\* The loop went on after a handler raised and after an unknown choice, and
\* stopped on choice 0 with the connection closed once.
C25_Witness ==
    /\ lastOp.op = "run"
    /\ Len(lastOp.choices) = 3
    /\ lastOp.raised[1]
    /\ lastOp.choices[2] = 7
    /\ lastOp.choices[3] = 0
    /\ lastOp.state = "stopped"
    /\ lastOp.closes = 1

----------------------------------------------------------------------------
(* database_initialiser.remove_duplicates *)

\* The stores the cleanup meets: those of the queries, and one where two
\* resolutions of a candidate without country left two Country rows
\* 'Unavailable' beside a Country of its own.
CleanupStores ==
    QueryStores \cup
    { ResolvedAgain(
          [countries |-> st.countries, cities |-> st.cities], "london",
          Candidate("London", 43, None, None, "GMT", TRUE)) :
        st \in { ResolvedAgain([countries |-> << >>, cities |-> << >>], "london",
                                Candidate("London", 43, None, None, "GMT", TRUE)) } }

CleanupInit ==
    /\ rq = Idle
    /\ \E st \in CleanupStores :
          /\ countries = st.countries
          /\ cities = st.cities
    /\ entries = EmptyBag
    /\ lastOp = [op |-> "none"]

\* GROUP BY name, timezone
SameCountry(a, b) == a.name = b.name /\ a.timezone = b.timezone

\* The Country statement: DuplicateRows holds MIN(ROWID) of every group of
\* more than one row; DELETE removes every row whose ROWID is not among
\* them, the rows without a duplicate included.
DeleteCountriesNotFirstOfDuplicates(cs) ==
    LET min_rowids ==
            { i \in DOMAIN cs :
                /\ \E j \in DOMAIN cs : j # i /\ SameCountry(cs[i], cs[j])
                /\ \A j \in DOMAIN cs : SameCountry(cs[i], cs[j]) => i <= j }
    IN  SelectSeq(cs, LAMBDA c :
            \E i \in min_rowids : cs[i].id = c.id)

\* The DailyWeatherEntry statement, the same over date, city_id, max_temp,
\* min_temp and precipitation: of the rows that occur more than once the
\* first is kept, every other row is deleted.
DeleteEntriesNotFirstOfDuplicates(es) ==
    [row \in {r \in BagToSet(es) : es[r] > 1} |-> 1]

\* session.execute(query) of the model's branch, within the transaction.
ExecuteDelete(cs, es, model) ==
    [ countries |-> IF model = "Country"
                    THEN DeleteCountriesNotFirstOfDuplicates(cs) ELSE cs,
      entries |-> IF model = "DailyWeatherEntry"
                  THEN DeleteEntriesNotFirstOfDuplicates(es) ELSE es ]

\* remove_duplicates for Country or DailyWeatherEntry: session.execute of the
\* DELETE, then .fetchall() on its result, which returns no rows and raises
\* ResourceClosedError (an SQLAlchemyError): rollback undoes the DELETE and
\* the error is raised again.
RemoveDuplicates(cs, es, model) ==
    LET executed == ExecuteDelete(cs, es, model)
    IN  [ countries |-> cs, entries |-> es,
          outcome |-> "ResourceClosedError",
          deleted |-> (Len(cs) - Len(executed.countries))
                      + (BagCardinality(es) - BagCardinality(executed.entries)) ]

RemoveDuplicateRows ==
    \E model \in {"Country", "DailyWeatherEntry"} :
        \E res \in {RemoveDuplicates(countries, entries, model)} :
            /\ countries' = res.countries
            /\ entries' = res.entries
            /\ lastOp' = [ op |-> "remove_duplicates",
                           model |-> model,
                           outcome |-> res.outcome,
                           rolled_back |-> res.deleted ]
            /\ UNCHANGED <<rq, cities>>

\* The statements handed to DatabaseManager.execute_query: selections of
\* the tables, a statement that is no SQL and one over a table that does
\* not exist (both sqlite3.OperationalError).
Queries ==
    {"SELECT * FROM countries", "SELECT * FROM cities", "SELEC * FROM countries",
     "SELECT * FROM nowhere"}

Fails(query) == query \in {"SELEC * FROM countries", "SELECT * FROM nowhere"}

\* DatabaseManager.execute_query: cursor.execute and fetchall; an
\* OperationalError is logged and an empty list returned.
ExecuteQuery(cs, cts, query) ==
    IF Fails(query)
    THEN [raised |-> FALSE, results |-> << >>]
    ELSE [raised |-> FALSE,
          results |-> IF query = "SELECT * FROM countries" THEN cs ELSE cts]

CallExecuteQuery ==
    \E query \in Queries :
        \E res \in {ExecuteQuery(countries, cities, query)} :
            /\ lastOp' = [ op |-> "execute_query",
                           query |-> query,
                           failed |-> Fails(query),
                           raised |-> res.raised,
                           rows |-> Len(res.results) ]
            /\ UNCHANGED <<rq, countries, cities, entries>>

CleanupNext == FetchDayForCity \/ RemoveDuplicateRows \/ CallExecuteQuery

SpecCleanup == CleanupInit /\ [][CleanupNext]_vars

\* C26: remove_duplicates for Country and for DailyWeatherEntry leaves
\* exactly one row, the one with the smallest rowid, for every group of equal
\* non-id column values that had a row before the call: no group goes, and
\* a row without a duplicate is left untouched.
C26_OneRowPerGroupRemains ==
    [][ ( lastOp'.op = "remove_duplicates" /\ lastOp'.model = "Country"
            => /\ \A i \in DOMAIN countries :
                     (\E j \in DOMAIN countries' : countries'[j] = countries[i])
                     <=> (\A k \in 1..(i - 1) :
                             ~SameCountry(countries[k], countries[i]))
               /\ Len(countries') <= Len(countries) )
        /\ ( lastOp'.op = "remove_duplicates"
             /\ lastOp'.model = "DailyWeatherEntry"
            => /\ BagToSet(entries') = BagToSet(entries)
               /\ \A row \in BagToSet(entries') : entries'[row] = 1 ) ]_vars

\* C28: execute_query raises sqlite3.OperationalError to its caller when the
\* query is invalid or fails to execute; a failed query is never reported as
\* an empty list of rows.
C28_FailedQueryIsRaised ==
    (lastOp.op = "execute_query" /\ lastOp.failed) => lastOp.raised

----------------------------------------------------------------------------
(* SessionManager and the components that hold its session *)

\* The session factories SessionManager is constructed with.
Factories == {"factory_1", "factory_2"}

\* The components that keep the session they got when constructed:
\* GeocodingApiService.session, LocationManager.db_session and the
\* WeatherApiService that LocationManager builds over it.
Components == {"GeocodingApiService", "LocationManager", "WeatherApiService"}

\* SessionManager._instance is None, no component is constructed; sessions
\* are numbered as the factory makes them, 0 standing for no session.
SessionInit ==
    /\ rq = Idle
    /\ countries = << >>
    /\ cities = << >>
    /\ entries = EmptyBag
    /\ lastOp = [ op |-> "none", instance |-> None, first_factory |-> None,
                  session |-> 0, made |-> 0, closed |-> {},
                  held |-> [c \in Components |-> 0] ]

\* SessionManager.__new__(cls, db_session_factory)
NewSessionManager(m, db_session_factory) ==
    IF m.instance = None
    THEN [m EXCEPT !.instance = db_session_factory,
                   !.first_factory = db_session_factory]
    ELSE m

\* get_session: the session attribute, made by the factory when absent.
GetSession(m) ==
    IF m.session = 0
    THEN [m EXCEPT !.session = m.made + 1, !.made = m.made + 1]
    ELSE m

\* close_session: session.close() and del self.session.
CloseSession(m) ==
    IF m.session # 0
    THEN [m EXCEPT !.closed = @ \cup {m.session}, !.session = 0]
    ELSE m

ConstructSessionManager ==
    \E db_session_factory \in Factories :
        lastOp' = [NewSessionManager(lastOp, db_session_factory)
                      EXCEPT !.op = "SessionManager"]

CallGetSession ==
    /\ lastOp.instance # None
    /\ GetSession(lastOp).made <= MaxSessions
    /\ lastOp' = [GetSession(lastOp) EXCEPT !.op = "get_session"]

CallCloseSession ==
    /\ lastOp.instance # None
    /\ lastOp' = [CloseSession(lastOp) EXCEPT !.op = "close_session"]

\* GeocodingApiService.__init__: self.session = session_manager.get_session()
ConstructGeocodingApiService ==
    /\ lastOp.instance # None
    /\ GetSession(lastOp).made <= MaxSessions
    /\ lastOp' = [GetSession(lastOp) EXCEPT
                     !.op = "GeocodingApiService",
                     !.held["GeocodingApiService"] = GetSession(lastOp).session]

\* LocationManager.__init__: self.db_session = session_manager.get_session()
\* and self.weather_service = WeatherApiService(self.db_session)
ConstructLocationManager ==
    /\ lastOp.instance # None
    /\ GetSession(lastOp).made <= MaxSessions
    /\ lastOp' = [GetSession(lastOp) EXCEPT
                     !.op = "LocationManager",
                     !.held["LocationManager"] = GetSession(lastOp).session,
                     !.held["WeatherApiService"] = GetSession(lastOp).session]

SessionNext ==
    /\ \/ ConstructSessionManager
       \/ CallGetSession
       \/ CallCloseSession
       \/ ConstructGeocodingApiService
       \/ ConstructLocationManager
    /\ UNCHANGED <<rq, countries, cities, entries>>

SpecSession == SessionInit /\ [][SessionNext]_vars

\* C27: every construction of SessionManager yields the one instance with the
\* first factory, and over any interleaving of get_session and close_session
\* every component uses the session that get_session currently returns,
\* never a closed or superseded one.
C27_OneCurrentSessionForAll ==
    /\ lastOp.instance = lastOp.first_factory
    /\ \A c \in Components :
          lastOp.held[c] # 0
          => /\ lastOp.held[c] \notin lastOp.closed
             /\ lastOp.session # 0 => lastOp.held[c] = lastOp.session

----------------------------------------------------------------------------
(* database_initialiser.clean_duplicates_in_background *)

\* models = [Country, City, DailyWeatherEntry], one thread each
Models == <<"Country", "City", "DailyWeatherEntry">>

\* clean_duplicates_in_background has made its session; no thread is
\* started. started counts the passes of the for loop.
BackgroundInit ==
    /\ rq = Idle
    /\ countries = << >>
    /\ cities = << >>
    /\ entries = EmptyBag
    /\ lastOp = [ op |-> "clean_duplicates_in_background",
                  started |-> 0,
                  session |-> "open",
                  thread |-> [i \in DOMAIN Models |-> "unstarted"] ]

\* threading.Thread(target=remove_duplicates, args=(session, model),
\* daemon=True).start()
StartThread ==
    /\ lastOp.session = "open"
    /\ lastOp.started < Len(Models)
    /\ lastOp' = [lastOp EXCEPT !.started = @ + 1,
                                !.thread[lastOp.started + 1] = "started"]

\* finally: session.close(), once the for loop is over; nothing waits for
\* the threads.
CloseBackgroundSession ==
    /\ lastOp.session = "open"
    /\ lastOp.started = Len(Models)
    /\ lastOp' = [lastOp EXCEPT !.session = "closed"]

\* A thread's remove_duplicates enters session.execute(query).
ThreadExecutes(i) ==
    /\ lastOp.thread[i] = "started"
    /\ lastOp' = [lastOp EXCEPT !.thread[i] = "executing"]

\* session.execute is over: session.commit(), or session.rollback() in the
\* except clause, begins.
ThreadCommits(i) ==
    /\ lastOp.thread[i] = "executing"
    /\ lastOp' = [lastOp EXCEPT !.thread[i] = "committing"]

\* remove_duplicates returns or raises; the thread ends.
ThreadEnds(i) ==
    /\ lastOp.thread[i] = "committing"
    /\ lastOp' = [lastOp EXCEPT !.thread[i] = "done"]

BackgroundNext ==
    /\ \/ StartThread
       \/ CloseBackgroundSession
       \/ \E i \in DOMAIN Models : ThreadExecutes(i)
       \/ \E i \in DOMAIN Models : ThreadCommits(i)
       \/ \E i \in DOMAIN Models : ThreadEnds(i)
    /\ UNCHANGED <<rq, countries, cities, entries>>

SpecBackground == BackgroundInit /\ [][BackgroundNext]_vars

\* The thread is executing or committing statements on the session.
OnSession(i) == lastOp.thread[i] \in {"executing", "committing"}

\* C29: in clean_duplicates_in_background the session shared by the three
\* cleanup threads is not closed while one of them is still executing or
\* committing statements on it, and no two of them execute on the session at
\* the same time.
C29_SessionUsedByOneThreadAndOpen ==
    lastOp.op = "clean_duplicates_in_background"
    => /\ lastOp.session = "closed" => \A i \in DOMAIN Models : ~OnSession(i)
       /\ \A i, j \in DOMAIN Models : (OnSession(i) /\ OnSession(j)) => i = j

----------------------------------------------------------------------------
(* _make_request for every max_retries *)

\* C30: for every max_retries >= 0 and every behaviour of the transport,
\* _make_request ends either by returning a parsed response or by raising
\* an error: it never returns without a result, and it never makes more than
\* max_retries attempts.
C30_ReturnsResponseOrRaises ==
    /\ Cardinality(Gets(rq.log)) <= rq.max_retries
    /\ rq.status = "returned"
         => /\ rq.log # << >>
            /\ rq.log[Len(rq.log)].kind = "ok"
            /\ rq.result = rq.log[Len(rq.log)].body

=============================================================================
